---- MODULE Spec2Model ----
(***************************************************************************)
(* whoop_scraper: one run of the CLI script (whoop_scraper.py, main) or of *)
(* the serverless handler (lambda/lambda_function.py, lambda_handler).     *)
(*                                                                         *)
(* JSON values are modelled as TLA+ records: a dict is a record whose      *)
(* domain is the set of keys present, JSON null is NullV, a list is a      *)
(* sequence.  A number n * 10^k is kept as [mant |-> n, e10 |-> k] because  *)
(* Python integers are unbounded and epoch nanoseconds do not fit TLC's    *)
(* integers.  A date string "YYYY-MM-DD" is the sequence <<Y, M, D>> of its *)
(* fields; a rendered timestamp string is the record of its fields.        *)
(***************************************************************************)
EXTENDS Integers, Sequences, FiniteSets, TLC

VARIABLES
    variant,            \* "cli" (whoop_scraper.py) or "handler" (lambda_function.py)
    pc,                 \* position of the run
    event,              \* handler: the event passed to lambda_handler
    username, password, \* credentials handed to WhoopUser
    arg_start_date,     \* constructor argument start_date
    arg_window_s,       \* constructor argument window_s
    arg_interval_s,     \* constructor argument interval_s
    tz,                 \* host's local UTC offset in seconds (local = UTC + tz)
    clock,              \* last wall-clock reading, epoch seconds
    userid, access_token,
    start_date, window_seconds, interval_seconds,
    start_datetime, api_start_time, api_end_time,
    heartrate_data, sleep_workout_data,   \* cli payloads
    data_raw,           \* handler payload
    lines,              \* handler: self.lines
    stdout,             \* cli: the printed lines
    response,           \* handler: the returned response object
    requests,           \* HTTP requests issued, in order
    replies,            \* HTTP responses received, in order
    calls               \* what each call of print_line_protocol produced

vars == <<variant, pc, event, username, password, arg_start_date, arg_window_s,
          arg_interval_s, tz, clock, userid, access_token, start_date,
          window_seconds, interval_seconds, start_datetime, api_start_time,
          api_end_time, heartrate_data, sleep_workout_data, data_raw, lines,
          stdout, response, requests, replies, calls>>

(***************************************************************************)
(* Bounds of the model.                                                    *)
(***************************************************************************)
MaxSamples == 2     \* heart-rate samples in a payload
MaxDays == 2        \* cycle days in a payload handed to the formatter alone
MaxWorkouts == 2    \* workouts in a day's strain
MaxCalls == 2       \* calls of print_line_protocol on one session
ClockTicks == 1     \* seconds the wall clock may advance during a run

(***************************************************************************)
(* Program constants.                                                      *)
(***************************************************************************)
DefaultWindowS == 480
DefaultIntervalS == 6
CycleWindowS == 432000
HttpOk == 200
HttpBadRequest == 400

(***************************************************************************)
(* Python values.                                                          *)
(***************************************************************************)
NullV == [null |-> TRUE]          \* None / JSON null, where a dict may stand
UnsetV == [unset |-> TRUE]        \* attribute not assigned yet
EmptyDict == [k \in {} |-> TRUE]  \* {}
NoneS == "None"                   \* None, where an id or token may stand
UnsetS == "unset"                 \* attribute not assigned yet (id, token)

Has(d, k) == k \in DOMAIN d
IsNull(v) == Has(v, "null")
\* Python truthiness of a dict-or-None value
Truthy(v) == ~IsNull(v) /\ DOMAIN v # {}
\* Python truthiness of an id (None and "" stand for the falsy ids)
TruthyS(s) == s \notin {NoneS, ""}

\* seqs of length <= n over S
SeqUpTo(S, n) == UNION {[1..k -> S] : k \in 0..n}

(***************************************************************************)
(* Calendar arithmetic of datetime (proleptic Gregorian).                  *)
(***************************************************************************)
SecondsPerDay == 24 * 60 * 60

IsLeap(y) == (y % 4 = 0 /\ y % 100 # 0) \/ y % 400 = 0

DaysInMonth(y, m) ==
    IF m = 2 THEN (IF IsLeap(y) THEN 29 ELSE 28)
    ELSE IF m \in {4, 6, 9, 11} THEN 30 ELSE 31

\* days from 1970-01-01 to y-m-d
DaysFromCivil(y, m, d) ==
    LET yy == IF m <= 2 THEN y - 1 ELSE y
        era == yy \div 400
        yoe == yy - era * 400
        mp == IF m > 2 THEN m - 3 ELSE m + 9
        doy == (153 * mp + 2) \div 5 + d - 1
        doe == yoe * 365 + yoe \div 4 - yoe \div 100 + doy
    IN era * 146097 + doe - 719468

\* the y-m-d of the day z days after 1970-01-01
CivilFromDays(z) ==
    LET zz == z + 719468
        era == zz \div 146097
        doe == zz - era * 146097
        yoe == (doe - doe \div 1460 + doe \div 36524 - doe \div 146096) \div 365
        doy == doe - (365 * yoe + yoe \div 4 - yoe \div 100)
        mp == (5 * doy + 2) \div 153
        d == doy - (153 * mp + 2) \div 5 + 1
        m == IF mp < 10 THEN mp + 3 ELSE mp - 9
        y == yoe + era * 400 + (IF m <= 2 THEN 1 ELSE 0)
    IN [y |-> y, m |-> m, d |-> d]

\* A naive datetime: its fields read as seconds since 1970-01-01T00:00:00, plus
\* microseconds.  datetime.combine(date, datetime.min.time())
CombineMidnight(date) ==
    [sec |-> DaysFromCivil(date.y, date.m, date.d) * SecondsPerDay, us |-> 0]

\* datetime.utcnow() when the wall clock reads t
UtcNow(t) == [sec |-> t, us |-> 250000]

\* dt - timedelta(seconds=w)
MinusSeconds(dt, w) == [sec |-> dt.sec - w, us |-> dt.us]

\* dt.replace(tzinfo=timezone.utc).strftime("%Y-%m-%dT%H:%M:%S.%fZ"): the fields of
\* the rendered string; replace() relabels the naive fields and shifts nothing
Strftime(dt) ==
    LET c == CivilFromDays(dt.sec \div SecondsPerDay)
        s == dt.sec % SecondsPerDay
    IN [Y |-> c.y, m |-> c.m, d |-> c.d,
        H |-> s \div 3600, M |-> (s % 3600) \div 60, S |-> s % 60,
        f |-> dt.us, suffix |-> "Z"]

\* datetime.strptime(s, "%Y-%m-%d") accepts s
ValidDateString(s) ==
    /\ Len(s) = 3
    /\ s[1] \in 1..9999
    /\ s[2] \in 1..12
    /\ s[3] \in 1..DaysInMonth(s[1], s[2])

\* int(round(datetime.strptime(s, "%Y-%m-%d").timestamp())): the naive datetime
\* is read in the host's local time zone
LocalMidnightEpoch(s, offset) ==
    DaysFromCivil(s[1], s[2], s[3]) * SecondsPerDay - offset

\* n * 10^k, n an integer or a scaled number
Num(n) == [mant |-> n, e10 |-> 0]
Times10(v, k) == [mant |-> v.mant, e10 |-> v.e10 + k]

(***************************************************************************)
(* Inputs: what the caller, the host and the vendor's API may supply.      *)
(***************************************************************************)
Now0 == 1641038400 + 37            \* 2022-01-01T12:00:37 UTC
Date1 == [y |-> 2022, m |-> 1, d |-> 1]
NoDate == [none |-> TRUE]          \* start_date=None

StartDates == {NoDate, Date1, [y |-> 2024, m |-> 3, d |-> 1]}
WindowLengths == {DefaultWindowS, CycleWindowS, 86400 + 1}
TZOffsets == {0, 3600}               \* hosts of a whole run
FormatTZOffsets == TZOffsets \cup {-18000}  \* hosts of the formatter alone
UserIds == {"U1", ""}
Tokens == {"tokA"}

\* bodies of a 200 reply of the token endpoint
TokenBodies ==
    {[user |-> [id |-> u], access_token |-> t] : u \in UserIds, t \in Tokens}
    \cup {[access_token |-> t] : t \in Tokens}
    \cup {[user |-> EmptyDict, access_token |-> t] : t \in Tokens}
    \cup {[user |-> [id |-> u]] : u \in UserIds}

TokenReplies ==
    {[status |-> HttpOk, body |-> b] : b \in TokenBodies}
    \cup {[status |-> 401, body |-> EmptyDict]}
    \cup {[status |-> 201, body |-> [user |-> [id |-> "U1"], access_token |-> "tokA"]]}

\* heart-rate samples: time in epoch milliseconds, data in bpm
Samples ==
    {[time |-> 1000, data |-> 72], [time |-> 2000], [data |-> 80]}

HeartRateBodies ==
    {[values |-> v] : v \in SeqUpTo(Samples, MaxSamples)}
    \cup {EmptyDict, [message |-> "no values"]}

HeartRateReplies ==
    {[status |-> HttpOk, body |-> b] : b \in HeartRateBodies}
    \cup {[status |-> 401, body |-> EmptyDict],
          [status |-> 500, body |-> [values |-> <<[time |-> 1000, data |-> 72]>>]]}

Workouts == {[maxHeartRate |-> 150], EmptyDict}

SleepValues ==
    {NullV, [state |-> "in_progress", score |-> 0],
     [state |-> "complete", score |-> 85], [state |-> "complete"], EmptyDict}

StrainValues ==
    {NullV, EmptyDict} \cup {[workouts |-> w] : w \in SeqUpTo(Workouts, MaxWorkouts)}

DaysValues == {<< <<2022, 1, 1>> >>, << <<2022, 2, 30>> >>, << >>}

\* a day: a dict over the keys sleep, strain, days, any of which may be missing
CycleDays ==
    {sl @@ st @@ dy :
        sl \in {EmptyDict} \cup {("sleep" :> v) : v \in SleepValues},
        st \in {EmptyDict} \cup {("strain" :> v) : v \in StrainValues},
        dy \in {EmptyDict} \cup {("days" :> v) : v \in DaysValues}}

\* the days the cycles endpoint answers a whole run with (one workout at most)
FlowDays ==
    {day \in CycleDays :
        /\ Has(day, "strain") /\ Has(day.strain, "workouts")
              => Len(day.strain.workouts) <= 1
        /\ Has(day, "days") => day.days # << >>
        /\ Has(day, "sleep") => day.sleep # EmptyDict}

CycleBodies == {<< >>} \cup {<<day>> : day \in FlowDays}

CycleReplies ==
    {[status |-> HttpOk, body |-> b] : b \in CycleBodies}
    \cup {[status |-> 401, body |-> << >>]}

(***************************************************************************)
(* Output records.                                                         *)
(***************************************************************************)
\* f'error msg="{msg}" {time.time_ns()}' when the wall clock reads t
ErrorLine(msg, t) == [m |-> "error", msg |-> msg, ts |-> Times10(Num(t), 9)]

\* f"heartrate,user_id={userid} bpm={bpm} {ns}"
HeartrateLine(uid, bpm, ns) ==
    [m |-> "heartrate", user_id |-> uid, field |-> "bpm", value |-> bpm, ts |-> ns]

\* f"sleep,user_id={userid} sleep_score={score} {ns}"
SleepLine(uid, score, ns) ==
    [m |-> "sleep", user_id |-> uid, field |-> "sleep_score", value |-> score, ts |-> ns]

\* f"workout,user_id={userid} max_heartrate={maxHeartRate} {ns}"
WorkoutLine(uid, mhr, ns) ==
    [m |-> "workout", user_id |-> uid, field |-> "max_heartrate", value |-> mhr, ts |-> ns]

IsError(line) == line.m = "error"

(***************************************************************************)
(* The formatting pass.  A pass yields [lines, err]: the records produced  *)
(* up to the first exception, and that exception's message ("" for none).  *)
(***************************************************************************)
NoErr == ""
Pass(ls, e) == [lines |-> ls, err |-> e]

\* the heart-rate loop body: bpm = heartrate["data"]; ns = heartrate["time"] * 1000000
FormatSample(sample, uid) ==
    IF ~Has(sample, "data") THEN Pass(<< >>, "'data'")
    ELSE IF ~Has(sample, "time") THEN Pass(<< >>, "'time'")
    ELSE Pass(<<HeartrateLine(uid, sample.data, Times10(Num(sample.time), 6))>>, NoErr)

RECURSIVE FormatSamples(_, _)
FormatSamples(values, uid) ==
    IF values = << >> THEN Pass(<< >>, NoErr)
    ELSE LET first == FormatSample(Head(values), uid)
         IN IF first.err # NoErr THEN first
            ELSE LET rest == FormatSamples(Tail(values), uid)
                 IN Pass(first.lines \o rest.lines, rest.err)

\* for heartrate in payload["values"]: ...
FormatHeartrate(payload, uid) ==
    IF ~Has(payload, "values") THEN Pass(<< >>, "'values'")
    ELSE FormatSamples(payload.values, uid)

\* dt = datetime.strptime(day["days"][0], "%Y-%m-%d"): the exception it raises, if any
DayDateError(day) ==
    IF ~Has(day, "days") THEN "'days'"
    ELSE IF day.days = << >> THEN "list index out of range"
    ELSE IF ~ValidDateString(day.days[1]) THEN "time data does not match format '%Y-%m-%d'"
    ELSE NoErr

\* ns = int(round(dt.timestamp())) * 1000 * 1000000
DayNs(day, offset) ==
    Times10(Times10(Num(LocalMidnightEpoch(day.days[1], offset)), 3), 6)

\* if day["sleep"] and day["sleep"]["state"] == "complete": ...
FormatSleep(day, uid, offset) ==
    IF ~Has(day, "sleep") THEN Pass(<< >>, "'sleep'")
    ELSE IF ~Truthy(day.sleep) THEN Pass(<< >>, NoErr)
    ELSE IF ~Has(day.sleep, "state") THEN Pass(<< >>, "'state'")
    ELSE IF day.sleep.state # "complete" THEN Pass(<< >>, NoErr)
    ELSE IF DayDateError(day) # NoErr THEN Pass(<< >>, DayDateError(day))
    ELSE IF ~Has(day.sleep, "score") THEN Pass(<< >>, "'score'")
    ELSE Pass(<<SleepLine(uid, day.sleep.score, DayNs(day, offset))>>, NoErr)

\* the workout loop body
FormatWorkout(workout, day, uid, offset) ==
    IF DayDateError(day) # NoErr THEN Pass(<< >>, DayDateError(day))
    ELSE IF ~Has(workout, "maxHeartRate") THEN Pass(<< >>, "'maxHeartRate'")
    ELSE Pass(<<WorkoutLine(uid, workout.maxHeartRate, DayNs(day, offset))>>, NoErr)

RECURSIVE FormatWorkouts(_, _, _, _)
FormatWorkouts(ws, day, uid, offset) ==
    IF ws = << >> THEN Pass(<< >>, NoErr)
    ELSE LET first == FormatWorkout(Head(ws), day, uid, offset)
         IN IF first.err # NoErr THEN first
            ELSE LET rest == FormatWorkouts(Tail(ws), day, uid, offset)
                 IN Pass(first.lines \o rest.lines, rest.err)

\* if day["strain"] and day["strain"]["workouts"]: for workout in ...
FormatStrain(day, uid, offset) ==
    IF ~Has(day, "strain") THEN Pass(<< >>, "'strain'")
    ELSE IF ~Truthy(day.strain) THEN Pass(<< >>, NoErr)
    ELSE IF ~Has(day.strain, "workouts") THEN Pass(<< >>, "'workouts'")
    ELSE FormatWorkouts(day.strain.workouts, day, uid, offset)

\* the body of "for day in self.sleep_workout_data"
FormatDay(day, uid, offset) ==
    LET sl == FormatSleep(day, uid, offset)
    IN IF sl.err # NoErr THEN sl
       ELSE LET st == FormatStrain(day, uid, offset)
            IN Pass(sl.lines \o st.lines, st.err)

RECURSIVE FormatDays(_, _, _)
FormatDays(days, uid, offset) ==
    IF days = << >> THEN Pass(<< >>, NoErr)
    ELSE LET first == FormatDay(Head(days), uid, offset)
         IN IF first.err # NoErr THEN first
            ELSE LET rest == FormatDays(Tail(days), uid, offset)
                 IN Pass(first.lines \o rest.lines, rest.err)

\* whoop_scraper.py print_line_protocol: what it prints, and whether it ends in exit()
CliPrintLineProtocol(hr, cycles, uid, offset, t) ==
    LET h == FormatHeartrate(hr, uid)
        c == IF h.err # NoErr THEN Pass(<< >>, h.err) ELSE FormatDays(cycles, uid, offset)
    IN [printed |-> h.lines \o c.lines \o
                    (IF c.err # NoErr THEN <<ErrorLine(c.err, t)>> ELSE << >>),
        exited |-> c.err # NoErr]

\* lambda_function.py print_line_protocol: self.lines afterwards, and whether it
\* ends in exit()
HandlerPrintLineProtocol(ls, raw, uid, t) ==
    LET h == FormatHeartrate(raw, uid)
    IN IF h.err # NoErr
       THEN [lines |-> <<ErrorLine(h.err, t)>>, exited |-> TRUE]
       ELSE [lines |-> ls \o h.lines, exited |-> FALSE]

\* "\n".join(lines): the lines with a separator between neighbours
NewLine == [m |-> "\n"]
RECURSIVE JoinLines(_)
JoinLines(ls) ==
    IF ls = << >> THEN << >>
    ELSE IF Len(ls) = 1 THEN ls
    ELSE <<Head(ls), NewLine>> \o JoinLines(Tail(ls))

\* the lines of a body string
BodyLines(body) == SelectSeq(body, LAMBDA x : x # NewLine)

(***************************************************************************)
(* The window calculator.                                                  *)
(***************************************************************************)
\* set_start_dt / the first statement of set_api_timestamps
StartDatetime(sd, now) ==
    IF sd # NoDate THEN CombineMidnight(sd) ELSE UtcNow(now)

\* set_api_timestamps without "if data_type == 'cycle'": the caller's window is
\* used for every metric kind
WindowForNoOverride(ws, data_type) == ws

\* the window length set_api_timestamps leaves in self.window_seconds
WindowFor(ws, data_type) ==
    IF data_type = "cycle" THEN CycleWindowS ELSE ws

\* whoop_scraper.py set_api_timestamps: the attributes it assigns
SetApiTimestamps(sd, ws, data_type, now) ==
    LET dt == StartDatetime(sd, now)
        w == WindowFor(ws, data_type)
    IN [start_datetime |-> dt,
        window_seconds |-> w,
        api_end_time |-> Strftime(dt),
        api_start_time |-> Strftime(MinusSeconds(dt, w))]

\* the instant a rendered timestamp names, in seconds since the epoch
RenderedEpoch(r) ==
    DaysFromCivil(r.Y, r.m, r.d) * SecondsPerDay + r.H * 3600 + r.M * 60 + r.S

(***************************************************************************)
(* Authentication.                                                         *)
(***************************************************************************)
\* get_token without "if r.status_code != 200": the body is read whatever the status
GetTokenIgnoresStatus(reply, uid0, tok0) ==
    IF ~Has(reply.body, "user")
    THEN [outcome |-> "raised", msg |-> "'user'", userid |-> uid0, access_token |-> tok0]
    ELSE IF ~Has(reply.body.user, "id")
    THEN [outcome |-> "raised", msg |-> "'id'", userid |-> uid0, access_token |-> tok0]
    ELSE IF ~Has(reply.body, "access_token")
    THEN [outcome |-> "raised", msg |-> "'access_token'",
          userid |-> reply.body.user.id, access_token |-> tok0]
    ELSE [outcome |-> "ok", msg |-> NoErr,
          userid |-> reply.body.user.id, access_token |-> reply.body.access_token]

\* get_token reading the token with .get("access_token"): a reply without it
\* leaves the token as it was and get_token returns normally
GetTokenToleratesMissingToken(reply, uid0, tok0) ==
    IF reply.status # HttpOk
    THEN [outcome |-> "rejected", msg |-> "Fail - Credentials rejected.",
          userid |-> uid0, access_token |-> tok0]
    ELSE IF ~Has(reply.body, "user")
    THEN [outcome |-> "raised", msg |-> "'user'", userid |-> uid0, access_token |-> tok0]
    ELSE IF ~Has(reply.body.user, "id")
    THEN [outcome |-> "raised", msg |-> "'id'", userid |-> uid0, access_token |-> tok0]
    ELSE [outcome |-> "ok", msg |-> NoErr,
          userid |-> reply.body.user.id,
          access_token |-> IF Has(reply.body, "access_token")
                           THEN reply.body.access_token ELSE tok0]

\* get_token after the POST: what it leaves in userid and access_token, and how it
\* ends: "rejected" (non-200), "raised" (an exception leaves it), "ok"
GetToken(reply, uid0, tok0) ==
    IF reply.status # HttpOk
    THEN [outcome |-> "rejected", msg |-> "Fail - Credentials rejected.",
          userid |-> uid0, access_token |-> tok0]
    ELSE IF ~Has(reply.body, "user")
    THEN [outcome |-> "raised", msg |-> "'user'", userid |-> uid0, access_token |-> tok0]
    ELSE IF ~Has(reply.body.user, "id")
    THEN [outcome |-> "raised", msg |-> "'id'", userid |-> uid0, access_token |-> tok0]
    ELSE IF ~Has(reply.body, "access_token")
    THEN [outcome |-> "raised", msg |-> "'access_token'",
          userid |-> reply.body.user.id, access_token |-> tok0]
    ELSE [outcome |-> "ok", msg |-> NoErr,
          userid |-> reply.body.user.id, access_token |-> reply.body.access_token]

TokenRequest(u, p) ==
    [kind |-> "token", method |-> "POST", username |-> u, password |-> p]

HeartRateRequest(uid, tok, start, end, step) ==
    [kind |-> "heart_rate", method |-> "GET", userid |-> uid, bearer |-> tok,
     start |-> start, end |-> end, step |-> step]

CycleRequest(uid, tok, start, end) ==
    [kind |-> "cycles", method |-> "GET", userid |-> uid, bearer |-> tok,
     start |-> start, end |-> end]

Reply(kind, reply) == [kind |-> kind, status |-> reply.status, body |-> reply.body]

\* what a reading of the wall clock may return now
ClockReadings == {t \in clock..(Now0 + ClockTicks) : t >= clock}

FetchRejected == "Fail - User ID / auth token rejected."

\* get_heartrate_data without its status check
HeartrateAcceptedAny(reply) == TRUE

\* get_heartrate_data: "if r.status_code != 200" does not fire
HeartrateAccepted(reply) == reply.status = HttpOk

\* get_cycle_data: "if r.status_code != 200" does not fire
CycleAccepted(reply) == reply.status = HttpOk

\* get_data: "if r.status_code != 200" does not fire
DataAccepted(reply) == reply.status = HttpOk

(***************************************************************************)
(* The CLI run: main() of whoop_scraper.py.                                *)
(***************************************************************************)
\* WhoopUser.__init__ up to and including get_token, and lines 47-49 after it
CliGetToken ==
    /\ variant = "cli" /\ pc = "start"
    /\ \E reply \in TokenReplies :
         LET g == GetToken(reply, userid, access_token)
         IN /\ requests' = Append(requests, TokenRequest(username, password))
            /\ replies' = Append(replies, Reply("token", reply))
            /\ userid' = g.userid
            /\ access_token' = g.access_token
            /\ IF g.outcome = "ok"
               THEN /\ start_date' = arg_start_date
                    /\ window_seconds' = arg_window_s
                    /\ interval_seconds' = arg_interval_s
                    /\ pc' = "hr"
                    /\ UNCHANGED <<stdout, clock>>
               ELSE /\ \E t \in ClockReadings :
                         /\ stdout' = Append(stdout, ErrorLine(g.msg, t))
                         /\ clock' = t
                    \* exit() leaves main through SystemExit; a KeyError is
                    \* caught by main's except Exception
                    /\ pc' = IF g.outcome = "rejected" THEN "exit" ELSE "done"
                    /\ UNCHANGED <<start_date, window_seconds, interval_seconds>>
    /\ UNCHANGED <<variant, event, username, password, arg_start_date, arg_window_s,
                   arg_interval_s, tz, start_datetime, api_start_time, api_end_time,
                   heartrate_data, sleep_workout_data, data_raw, lines, response,
                   calls>>

\* get_heartrate_data
CliGetHeartrateData ==
    /\ variant = "cli" /\ pc = "hr"
    /\ \E now \in (IF start_date = NoDate THEN ClockReadings ELSE {clock}),
          reply \in HeartRateReplies :
         LET w == SetApiTimestamps(start_date, window_seconds, "heartrate", now)
         IN /\ start_datetime' = w.start_datetime
            /\ window_seconds' = w.window_seconds
            /\ api_end_time' = w.api_end_time
            /\ api_start_time' = w.api_start_time
            /\ requests' = Append(requests,
                   HeartRateRequest(userid, access_token, w.api_start_time,
                                    w.api_end_time, interval_seconds))
            /\ replies' = Append(replies, Reply("heart_rate", reply))
            /\ IF ~HeartrateAccepted(reply)
               THEN /\ \E t \in {u \in ClockReadings : u >= now} :
                         /\ stdout' = Append(stdout, ErrorLine(FetchRejected, t))
                         /\ clock' = t
                    /\ pc' = "exit"
                    /\ UNCHANGED heartrate_data
               ELSE /\ heartrate_data' = reply.body
                    /\ clock' = now
                    /\ pc' = "cycle"
                    /\ UNCHANGED stdout
    /\ UNCHANGED <<variant, event, username, password, arg_start_date, arg_window_s,
                   arg_interval_s, tz, userid, access_token, start_date,
                   interval_seconds, sleep_workout_data, data_raw, lines, response,
                   calls>>

\* get_cycle_data
CliGetCycleData ==
    /\ variant = "cli" /\ pc = "cycle"
    /\ \E now \in (IF start_date = NoDate THEN ClockReadings ELSE {clock}),
          reply \in CycleReplies :
         LET w == SetApiTimestamps(start_date, window_seconds, "cycle", now)
         IN /\ start_datetime' = w.start_datetime
            /\ window_seconds' = w.window_seconds
            /\ api_end_time' = w.api_end_time
            /\ api_start_time' = w.api_start_time
            /\ requests' = Append(requests,
                   CycleRequest(userid, access_token, w.api_start_time, w.api_end_time))
            /\ replies' = Append(replies, Reply("cycles", reply))
            /\ IF ~CycleAccepted(reply)
               THEN /\ \E t \in {u \in ClockReadings : u >= now} :
                         /\ stdout' = Append(stdout, ErrorLine(FetchRejected, t))
                         /\ clock' = t
                    /\ pc' = "exit"
                    /\ UNCHANGED sleep_workout_data
               ELSE /\ sleep_workout_data' = reply.body
                    /\ clock' = now
                    /\ pc' = "print"
                    /\ UNCHANGED stdout
    /\ UNCHANGED <<variant, event, username, password, arg_start_date, arg_window_s,
                   arg_interval_s, tz, userid, access_token, start_date,
                   interval_seconds, heartrate_data, data_raw, lines, response,
                   calls>>

\* one call of print_line_protocol on the session; next is where the caller goes
\* when it returns
CliPrintCall(next) ==
    \E t \in ClockReadings :
        LET r == CliPrintLineProtocol(heartrate_data, sleep_workout_data, userid, tz, t)
        IN /\ r.exited \/ t = clock
           /\ stdout' = stdout \o r.printed
           /\ calls' = Append(calls, r.printed)
           /\ clock' = t
           /\ pc' = IF r.exited THEN "exit" ELSE next

\* main: user.print_line_protocol()
CliPrint ==
    /\ variant = "cli" /\ pc = "print"
    /\ CliPrintCall("done")
    /\ UNCHANGED <<variant, event, username, password, arg_start_date, arg_window_s,
                   arg_interval_s, tz, userid, access_token, start_date,
                   window_seconds, interval_seconds, start_datetime, api_start_time,
                   api_end_time, heartrate_data, sleep_workout_data, data_raw, lines,
                   response, requests, replies>>

(***************************************************************************)
(* The handler run: lambda_handler of lambda_function.py.                  *)
(***************************************************************************)
\* event["body"] as text: not JSON, a JSON array, or a JSON object
Credentials ==
    {[whoop_username |-> "ryan@gmail.com", whoop_password |-> "pw"],
     [whoop_username |-> "ryan@gmail.com"], EmptyDict}

EventBodies ==
    {[json |-> "garbage"], [json |-> "array"]}
    \cup {[json |-> "object", obj |-> c] : c \in Credentials}

Events == {EmptyDict} \cup {[body |-> b] : b \in EventBodies}

\* the exception of lines 123-125, if any
EventError(ev) ==
    IF ~Has(ev, "body") THEN "'body'"
    ELSE IF ev.body.json = "garbage" THEN "Expecting value: line 1 column 1 (char 0)"
    ELSE IF ev.body.json = "array" THEN "'list' object has no attribute 'get'"
    ELSE NoErr

\* body.get(key, None)
DictGet(d, k) == IF Has(d, k) THEN d[k] ELSE NoneS

\* {"statusCode": 200, "body": "\n".join(lines)}
OkResponse(ls) == [statusCode |-> HttpOk, body |-> JoinLines(ls)]

\* {"statusCode": 400, "body": json.dumps({"message": str(e)})}
BadRequestResponse(msg) == [statusCode |-> HttpBadRequest, body |-> [message |-> msg]]

\* lines 118-125: read the request envelope
HandlerReadEvent ==
    /\ variant = "handler" /\ pc = "start"
    /\ IF EventError(event) # NoErr
       THEN /\ response' = BadRequestResponse(EventError(event))
            /\ pc' = "done"
            /\ UNCHANGED <<username, password>>
       ELSE /\ username' = DictGet(event.body.obj, "whoop_username")
            /\ password' = DictGet(event.body.obj, "whoop_password")
            /\ pc' = "token"
            /\ UNCHANGED response
    /\ UNCHANGED <<variant, event, arg_start_date, arg_window_s, arg_interval_s, tz,
                   clock, userid, access_token, start_date, window_seconds,
                   interval_seconds, start_datetime, api_start_time, api_end_time,
                   heartrate_data, sleep_workout_data, data_raw, lines, stdout,
                   requests, replies, calls>>

\* WhoopUser.__init__ lines 27-36 with get_token, and what lambda_handler does
\* when the constructor ends without a fetch
HandlerGetToken ==
    /\ variant = "handler" /\ pc = "token"
    /\ \E reply \in TokenReplies :
         LET g == GetToken(reply, NoneS, NoneS)
         IN /\ requests' = Append(requests, TokenRequest(username, password))
            /\ replies' = Append(replies, Reply("token", reply))
            /\ userid' = g.userid
            /\ access_token' = g.access_token
            /\ data_raw' = NullV
            /\ CASE g.outcome = "rejected" ->
                      \* the error joins self.lines; lines = user.lines
                      \E t \in ClockReadings :
                         /\ lines' = <<ErrorLine(g.msg, t)>>
                         /\ clock' = t
                         /\ response' = OkResponse(lines')
                         /\ pc' = "done"
                         /\ UNCHANGED <<start_date, start_datetime, window_seconds,
                                        interval_seconds>>
                 [] g.outcome = "raised" ->
                      \* the constructor raises; the inner except appends to the
                      \* handler's own empty list
                      \E t \in ClockReadings :
                         /\ lines' = << >>
                         /\ clock' = t
                         /\ response' = OkResponse(<<ErrorLine(g.msg, t)>>)
                         /\ pc' = "done"
                         /\ UNCHANGED <<start_date, start_datetime, window_seconds,
                                        interval_seconds>>
                 [] g.outcome = "ok" /\ ~TruthyS(g.userid) ->
                      /\ lines' = << >>
                      /\ response' = OkResponse(<< >>)
                      /\ pc' = "done"
                      /\ UNCHANGED <<clock, start_date, start_datetime, window_seconds,
                                     interval_seconds>>
                 [] g.outcome = "ok" /\ TruthyS(g.userid) ->
                      \E now \in (IF arg_start_date = NoDate THEN ClockReadings
                                  ELSE {clock}) :
                         /\ lines' = << >>
                         /\ start_date' = arg_start_date
                         /\ start_datetime' = StartDatetime(arg_start_date, now)
                         /\ clock' = now
                         /\ window_seconds' = arg_window_s
                         /\ interval_seconds' = arg_interval_s
                         /\ pc' = "hr"
                         /\ UNCHANGED response
    /\ UNCHANGED <<variant, event, username, password, arg_start_date, arg_window_s,
                   arg_interval_s, tz, api_start_time, api_end_time, heartrate_data,
                   sleep_workout_data, stdout, calls>>

\* get_data, and lines 129-135 of lambda_handler when data_raw is falsy
HandlerGetData ==
    /\ variant = "handler" /\ pc = "hr"
    /\ \E reply \in HeartRateReplies :
         /\ api_end_time' = Strftime(start_datetime)
         /\ api_start_time' = Strftime(MinusSeconds(start_datetime, window_seconds))
         /\ requests' = Append(requests,
                HeartRateRequest(userid, access_token, api_start_time',
                                 api_end_time', interval_seconds))
         /\ replies' = Append(replies, Reply("heart_rate", reply))
         /\ IF ~DataAccepted(reply)
            THEN /\ \E t \in ClockReadings :
                      /\ lines' = Append(lines, ErrorLine(FetchRejected, t))
                      /\ clock' = t
                 /\ response' = OkResponse(lines')
                 /\ pc' = "done"
                 /\ UNCHANGED data_raw
            ELSE /\ data_raw' = reply.body
                 /\ IF Truthy(reply.body)
                    THEN pc' = "print" /\ UNCHANGED response
                    ELSE pc' = "done" /\ response' = OkResponse(lines)
                 /\ UNCHANGED <<lines, clock>>
    /\ UNCHANGED <<variant, event, username, password, arg_start_date, arg_window_s,
                   arg_interval_s, tz, userid, access_token, start_date,
                   window_seconds, interval_seconds, start_datetime, heartrate_data,
                   sleep_workout_data, stdout, calls>>

\* one call of print_line_protocol on the session
HandlerPrintCall ==
    \E t \in ClockReadings :
        LET r == HandlerPrintLineProtocol(lines, data_raw, userid, t)
        IN /\ r.exited \/ t = clock
           /\ lines' = r.lines
           /\ calls' = Append(calls, r.lines)
           /\ clock' = t

\* lines 130-135: user.print_line_protocol(); lines = user.lines; the response.
\* exit() inside print_line_protocol raises SystemExit, which no except Exception
\* catches: the handler is left without a response
HandlerPrint ==
    /\ variant = "handler" /\ pc = "print"
    /\ HandlerPrintCall
    /\ IF HandlerPrintLineProtocol(lines, data_raw, userid, clock).exited
       THEN pc' = "exit" /\ UNCHANGED response
       ELSE pc' = "done" /\ response' = OkResponse(lines')
    /\ UNCHANGED <<variant, event, username, password, arg_start_date, arg_window_s,
                   arg_interval_s, tz, userid, access_token, start_date,
                   window_seconds, interval_seconds, start_datetime, api_start_time,
                   api_end_time, heartrate_data, sleep_workout_data, data_raw, stdout,
                   requests, replies>>

(***************************************************************************)
(* The runs.                                                               *)
(***************************************************************************)
\* nothing of the session is assigned yet
Fresh ==
    /\ pc = "start"
    /\ clock = Now0
    /\ userid = UnsetS /\ access_token = UnsetS
    /\ start_date = UnsetV /\ window_seconds = UnsetV /\ interval_seconds = UnsetV
    /\ start_datetime = UnsetV /\ api_start_time = UnsetV /\ api_end_time = UnsetV
    /\ heartrate_data = UnsetV /\ sleep_workout_data = UnsetV /\ data_raw = UnsetV
    /\ lines = << >> /\ stdout = << >> /\ response = NullV
    /\ requests = << >> /\ replies = << >> /\ calls = << >>

\* main() builds WhoopUser(WHOOP_USERNAME, WHOOP_PASSWORD); any other caller of
\* the class may pass start_date and window_s
InitCli ==
    /\ variant = "cli"
    /\ event = NullV
    /\ username = "ryan@gmail.com" /\ password = "pw"
    /\ arg_start_date \in StartDates
    /\ arg_window_s \in WindowLengths
    /\ arg_interval_s = DefaultIntervalS
    /\ tz \in TZOffsets
    /\ Fresh

\* lambda_handler(event, context) builds WhoopUser(username, password)
InitHandler ==
    /\ variant = "handler"
    /\ event \in Events
    /\ username = "" /\ password = ""
    /\ arg_start_date = NoDate
    /\ arg_window_s = DefaultWindowS
    /\ arg_interval_s = DefaultIntervalS
    /\ tz \in TZOffsets
    /\ Fresh

Init == InitCli \/ InitHandler

Next ==
    \/ CliGetToken
    \/ CliGetHeartrateData
    \/ CliGetCycleData
    \/ CliPrint
    \/ HandlerReadEvent
    \/ HandlerGetToken
    \/ HandlerGetData
    \/ HandlerPrint

Spec == Init /\ [][Next]_vars

(***************************************************************************)
(* The formatter alone: a constructed session holding fetched payloads, on *)
(* which print_line_protocol is called up to MaxCalls times.               *)
(***************************************************************************)
\* days with every key present and a date that parses
CoreDays ==
    {day \in FlowDays :
        Has(day, "sleep") /\ Has(day, "strain") /\ Has(day, "days")
        /\ ValidDateString(day.days[1])}

FormatCycleBodies ==
    {<<day>> : day \in CycleDays} \cup SeqUpTo(CoreDays, MaxDays)

\* the session WhoopUser("ryan@gmail.com", "pw") is after a construction whose
\* three requests were answered 200
InitFormatCli ==
    /\ variant = "cli"
    /\ pc = "session"
    /\ event = NullV
    /\ username = "ryan@gmail.com" /\ password = "pw"
    /\ arg_start_date = NoDate
    /\ arg_window_s = DefaultWindowS
    /\ arg_interval_s = DefaultIntervalS
    /\ tz \in FormatTZOffsets
    /\ clock = Now0
    /\ userid = "U1" /\ access_token = "tokA"
    /\ start_date = NoDate
    /\ window_seconds = CycleWindowS
    /\ interval_seconds = DefaultIntervalS
    /\ start_datetime = UtcNow(Now0)
    /\ api_end_time = Strftime(start_datetime)
    /\ api_start_time = Strftime(MinusSeconds(start_datetime, CycleWindowS))
    /\ heartrate_data \in HeartRateBodies
    /\ sleep_workout_data \in FormatCycleBodies
    /\ data_raw = UnsetV
    /\ lines = << >> /\ stdout = << >> /\ response = NullV
    /\ requests =
          <<TokenRequest(username, password),
            HeartRateRequest(userid, access_token,
                Strftime(MinusSeconds(start_datetime, DefaultWindowS)),
                api_end_time, interval_seconds),
            CycleRequest(userid, access_token, api_start_time, api_end_time)>>
    /\ replies =
          <<[kind |-> "token", status |-> HttpOk,
             body |-> [user |-> [id |-> userid], access_token |-> access_token]],
            [kind |-> "heart_rate", status |-> HttpOk, body |-> heartrate_data],
            [kind |-> "cycles", status |-> HttpOk, body |-> sleep_workout_data]>>
    /\ calls = << >>

\* the same for the handler's WhoopUser, whose get_data was answered 200
InitFormatHandler ==
    /\ variant = "handler"
    /\ pc = "session"
    /\ event = [body |-> [json |-> "object",
                          obj |-> [whoop_username |-> "ryan@gmail.com",
                                   whoop_password |-> "pw"]]]
    /\ username = "ryan@gmail.com" /\ password = "pw"
    /\ arg_start_date = NoDate
    /\ arg_window_s = DefaultWindowS
    /\ arg_interval_s = DefaultIntervalS
    /\ tz \in FormatTZOffsets
    /\ clock = Now0
    /\ userid = "U1" /\ access_token = "tokA"
    /\ start_date = NoDate
    /\ window_seconds = DefaultWindowS
    /\ interval_seconds = DefaultIntervalS
    /\ start_datetime = UtcNow(Now0)
    /\ api_end_time = Strftime(start_datetime)
    /\ api_start_time = Strftime(MinusSeconds(start_datetime, DefaultWindowS))
    /\ heartrate_data = UnsetV
    /\ sleep_workout_data = UnsetV
    /\ data_raw \in HeartRateBodies
    /\ lines = << >> /\ stdout = << >> /\ response = NullV
    /\ requests =
          <<TokenRequest(username, password),
            HeartRateRequest(userid, access_token, api_start_time, api_end_time,
                             interval_seconds)>>
    /\ replies =
          <<[kind |-> "token", status |-> HttpOk,
             body |-> [user |-> [id |-> userid], access_token |-> access_token]],
            [kind |-> "heart_rate", status |-> HttpOk, body |-> data_raw]>>
    /\ calls = << >>

InitFormat == InitFormatCli \/ InitFormatHandler

SessionPrintCli ==
    /\ variant = "cli" /\ pc = "session"
    /\ Len(calls) < MaxCalls
    /\ CliPrintCall("session")
    /\ UNCHANGED <<variant, event, username, password, arg_start_date, arg_window_s,
                   arg_interval_s, tz, userid, access_token, start_date,
                   window_seconds, interval_seconds, start_datetime, api_start_time,
                   api_end_time, heartrate_data, sleep_workout_data, data_raw, lines,
                   response, requests, replies>>

SessionPrintHandler ==
    /\ variant = "handler" /\ pc = "session"
    /\ Len(calls) < MaxCalls
    /\ HandlerPrintCall
    /\ pc' = IF HandlerPrintLineProtocol(lines, data_raw, userid, clock).exited
             THEN "exit" ELSE "session"
    /\ UNCHANGED <<variant, event, username, password, arg_start_date, arg_window_s,
                   arg_interval_s, tz, userid, access_token, start_date,
                   window_seconds, interval_seconds, start_datetime, api_start_time,
                   api_end_time, heartrate_data, sleep_workout_data, data_raw, stdout,
                   response, requests, replies>>

NextFormat == SessionPrintCli \/ SessionPrintHandler

SpecFormat == InitFormat /\ [][NextFormat]_vars

(***************************************************************************)
(* Properties.                                                             *)
(***************************************************************************)
Ended == pc \in {"done", "exit"}

\* what the run gave its caller: the printed lines, or the lines of the body of a
\* 200 response
Output ==
    IF variant = "cli" THEN stdout
    ELSE IF response # NullV /\ response.statusCode = HttpOk
         THEN BodyLines(response.body)
         ELSE << >>

OneErrorOnly(out) == Len(out) = 1 /\ IsError(out[1])

Issued(kind) == \E i \in DOMAIN requests : requests[i].kind = kind

TokenRejected ==
    Len(replies) >= 1 /\ replies[1].kind = "token" /\ replies[1].status # HttpOk

HeartrateRejected ==
    \E i \in DOMAIN replies :
        replies[i].kind = "heart_rate" /\ replies[i].status # HttpOk

\* every request of the run was answered 200, the last metric fetch included
FetchedAll ==
    /\ Len(replies) = (IF variant = "cli" THEN 3 ELSE 2)
    /\ \A i \in DOMAIN replies : replies[i].status = HttpOk

\* C1: in both variants, once the token POST is answered with a non-200 status no
\* metric GET is issued, the run is over, and its output is exactly one error
\* record and no data record.
C1_RejectedTokenNoFetchOneError ==
    TokenRejected =>
        /\ ~Issued("heart_rate") /\ ~Issued("cycles")
        /\ Ended
        /\ OneErrorOnly(Output)
        /\ Len(requests) = 1

C1_Witness ==
    /\ variant = "handler" /\ TokenRejected /\ pc = "done"
    /\ replies[1].status = 201

\* a sample or a day lacks a field the formatting pass expects
SampleMalformed(x) == ~Has(x, "time") \/ ~Has(x, "data")

HeartrateMalformed(p) ==
    \/ ~Has(p, "values")
    \/ \E i \in DOMAIN p.values : SampleMalformed(p.values[i])

DayMalformed(day) ==
    \/ ~Has(day, "sleep") \/ ~Has(day, "strain") \/ ~Has(day, "days")
    \/ /\ ~IsNull(day.strain) /\ Has(day.strain, "workouts")
       /\ \E i \in DOMAIN day.strain.workouts :
              ~Has(day.strain.workouts[i], "maxHeartRate")

PayloadMalformed ==
    IF variant = "cli"
    THEN \/ HeartrateMalformed(heartrate_data)
         \/ \E i \in DOMAIN sleep_workout_data : DayMalformed(sleep_workout_data[i])
    ELSE HeartrateMalformed(data_raw)

\* C2: when a fetched payload lacks an expected field, the run's output is exactly
\* one error record and no data record: never data records followed by an error
\* record, and never empty.
C2_MalformedPayloadOneErrorOnly ==
    (Ended /\ FetchedAll /\ PayloadMalformed) => OneErrorOnly(Output)

\* C3: lambda_handler always ends by returning a response whose statusCode is 200
\* or 400; nothing leaves it as an exception or a process exit.
C3_HandlerAlwaysResponds ==
    (variant = "handler" /\ Ended) =>
        /\ pc = "done"
        /\ response # NullV
        /\ response.statusCode \in {HttpOk, HttpBadRequest}

\* C4: in the CLI run the heart-rate GET precedes the cycle GET, and when the
\* heart-rate GET is answered non-200 the cycle GET is never issued, no data
\* record is printed, exactly one error record is printed and the run is over.
C4_HeartrateFailureStopsRun ==
    variant = "cli" =>
        /\ \A i \in DOMAIN requests :
              requests[i].kind = "cycles" =>
                 \E j \in 1..(i - 1) : requests[j].kind = "heart_rate"
        /\ HeartrateRejected =>
              /\ ~Issued("cycles")
              /\ Ended
              /\ OneErrorOnly(stdout)

C4_Witness ==
    /\ variant = "cli" /\ HeartrateRejected /\ pc = "exit"
    /\ replies[2].status = 500

\* C5: in both variants a metric GET is only ever issued with the user id and the
\* bearer token of a 200 token reply of the same run, which the session holds; a
\* 200 token reply that lacks user.id or access_token ends the run with an error
\* and without a fetch.
C5_FetchOnlyWithReturnedIdentity ==
    /\ \A i \in DOMAIN requests :
          requests[i].method = "GET" =>
             /\ replies[1].kind = "token"
             /\ replies[1].status = HttpOk
             /\ Has(replies[1].body, "user")
             /\ Has(replies[1].body.user, "id")
             /\ Has(replies[1].body, "access_token")
             /\ requests[i].userid = replies[1].body.user.id
             /\ requests[i].bearer = replies[1].body.access_token
             /\ userid = replies[1].body.user.id
             /\ access_token = replies[1].body.access_token
    /\ ( /\ Len(replies) >= 1
         /\ replies[1].status = HttpOk
         /\ \/ ~Has(replies[1].body, "user")
            \/ ~Has(replies[1].body.user, "id")
            \/ ~Has(replies[1].body, "access_token") )
       => (Len(requests) = 1 /\ Ended /\ OneErrorOnly(Output))

C5_Witness ==
    /\ variant = "handler" /\ Issued("heart_rate")
    /\ requests[2].userid = "U1" /\ requests[2].bearer = "tokA"

\* a rendered timestamp names midnight of the date
IsMidnightOf(r, date) ==
    /\ r.Y = date.y /\ r.m = date.m /\ r.d = date.d
    /\ r.H = 0 /\ r.M = 0 /\ r.S = 0 /\ r.f = 0 /\ r.suffix = "Z"

\* the window of a request is the len seconds that end at midnight of the date
WindowIs(req, date, len) ==
    /\ IsMidnightOf(req.end, date)
    /\ RenderedEpoch(req.start) = RenderedEpoch(req.end) - len
    /\ req.start.f = 0 /\ req.start.suffix = "Z"

\* C6: with an anchor date D and a window length W given to the constructor, the
\* heart-rate GET carries end = D at midnight and start = end - W seconds, and the
\* cycle GET carries end = D at midnight and start = end - 432000 seconds.
C6_WindowsSent ==
    (variant = "cli" /\ arg_start_date # NoDate) =>
        \A i \in DOMAIN requests :
           /\ requests[i].kind = "heart_rate" =>
                 WindowIs(requests[i], arg_start_date, arg_window_s)
           /\ requests[i].kind = "cycles" =>
                 WindowIs(requests[i], arg_start_date, CycleWindowS)

C6_Witness ==
    /\ variant = "cli" /\ arg_start_date = Date1 /\ arg_window_s = SecondsPerDay + 1
    /\ Issued("heart_rate") /\ Issued("cycles")
    /\ requests[2].start.S = 59

\* what C7 asks of a day: a sleep record iff sleep is present with state
\* "complete", then one workout record per workout, none when strain is absent,
\* null or without workouts
RECURSIVE WorkoutLinesOf(_, _, _)
WorkoutLinesOf(ws, uid, ns) ==
    IF ws = << >> THEN << >>
    ELSE <<WorkoutLine(uid, Head(ws).maxHeartRate, ns)>> \o WorkoutLinesOf(Tail(ws), uid, ns)

DayLinesAsked(day, uid, offset) ==
    (IF Has(day, "sleep") /\ ~IsNull(day.sleep) /\ Has(day.sleep, "state")
        /\ day.sleep.state = "complete"
     THEN <<SleepLine(uid, day.sleep.score, DayNs(day, offset))>> ELSE << >>)
    \o
    (IF Has(day, "strain") /\ ~IsNull(day.strain) /\ Has(day.strain, "workouts")
     THEN WorkoutLinesOf(day.strain.workouts, uid, DayNs(day, offset)) ELSE << >>)

RECURSIVE DaysLinesAsked(_, _, _)
DaysLinesAsked(days, uid, offset) ==
    IF days = << >> THEN << >>
    ELSE DayLinesAsked(Head(days), uid, offset) \o DaysLinesAsked(Tail(days), uid, offset)

\* a day C7 calls well-formed: sleep and strain may each be absent or null
DayWellFormedAbsenceAllowed(day) ==
    /\ Has(day, "days") /\ day.days # << >> /\ ValidDateString(day.days[1])
    /\ (Has(day, "sleep") /\ ~IsNull(day.sleep)) =>
          (Has(day.sleep, "state") => Has(day.sleep, "score"))
    /\ (Has(day, "strain") /\ ~IsNull(day.strain) /\ Has(day.strain, "workouts")) =>
          \A i \in DOMAIN day.strain.workouts :
             Has(day.strain.workouts[i], "maxHeartRate")

\* the same with the keys sleep and strain present (their values may be null)
DayWellFormedKeysPresent(day) ==
    DayWellFormedAbsenceAllowed(day) /\ Has(day, "sleep") /\ Has(day, "strain")

FirstCallOnCli == variant = "cli" /\ Len(calls) >= 1

\* C7: on a well-formed payload the formatter prints, for each day in order, a
\* sleep record iff the day's sleep is present with state "complete" (none, and
\* no error, when it is in progress, null or absent), then one workout record
\* per workout of strain.workouts in list order (none when strain is absent,
\* null or without workouts), all with the day's timestamp.
C7_DayRecords ==
    ( /\ FirstCallOnCli
      /\ ~HeartrateMalformed(heartrate_data)
      /\ \A i \in DOMAIN sleep_workout_data :
            DayWellFormedAbsenceAllowed(sleep_workout_data[i]) )
    => calls[1] = FormatHeartrate(heartrate_data, userid).lines
                  \o DaysLinesAsked(sleep_workout_data, userid, tz)

\* the part of C7 the code keeps: the same on payloads whose days all carry the
\* keys sleep and strain
DayRecordsKeysPresent ==
    ( /\ FirstCallOnCli
      /\ ~HeartrateMalformed(heartrate_data)
      /\ \A i \in DOMAIN sleep_workout_data :
            DayWellFormedKeysPresent(sleep_workout_data[i]) )
    => calls[1] = FormatHeartrate(heartrate_data, userid).lines
                  \o DaysLinesAsked(sleep_workout_data, userid, tz)

\* epoch nanoseconds of 00:00:00 UTC of a date string
UtcMidnightNs(s) ==
    Times10(Num(DaysFromCivil(s[1], s[2], s[3]) * SecondsPerDay), 9)

\* C8: whatever the host's UTC offset, a sleep or workout record carries the epoch
\* nanoseconds of 00:00:00 UTC of its day's date.
C8_DayTimestampIsUtcMidnight ==
    FirstCallOnCli =>
        \A k \in DOMAIN calls[1] :
           calls[1][k].m \in {"sleep", "workout"} =>
              \E i \in DOMAIN sleep_workout_data :
                 /\ DayDateError(sleep_workout_data[i]) = NoErr
                 /\ calls[1][k].ts = UtcMidnightNs(sleep_workout_data[i].days[1])

\* the cycle window has been computed on the session
CycleWindowComputed == variant = "cli" /\ pc # "session" /\ Issued("cycles")

\* C9: computing a window, the cycle window included, leaves the session's window
\* length and sampling interval as the caller gave them, so a heart-rate window
\* computed next on the session still spans the caller's W seconds.
C9_WindowComputationKeepsSettings ==
    CycleWindowComputed =>
        /\ window_seconds = arg_window_s
        /\ interval_seconds = arg_interval_s
        /\ LET w == SetApiTimestamps(start_date, window_seconds, "heartrate", clock)
           IN RenderedEpoch(w.api_start_time)
                 = RenderedEpoch(w.api_end_time) - arg_window_s

\* C10: a second call of print_line_protocol on the same session produces what
\* the first produced: the CLI prints the same lines again, and the handler's
\* self.lines after two calls is what it was after one.
C10_FormattingIdempotent ==
    Len(calls) >= 2 => calls[2] = calls[1]

\* the CLI half of C10
CliSecondCallPrintsTheSame ==
    (variant = "cli" /\ Len(calls) >= 2) => calls[2] = calls[1]

====
